---- MODULE Spec2Model ----
(***************************************************************************)
(* Book Buddy front end: the conversation session controller               *)
(* (Conversation, src/unnamed/part_007) and the timed audio player         *)
(* (AudioReader, second version in src/unnamed/part_003).                  *)
(*                                                                         *)
(* Handlers run to completion (single-threaded event loop); an async       *)
(* function is cut at every await whose promise is settled by the outside  *)
(* world (getUserMedia, fetch, the voice SDK).  A React state change, the  *)
(* re-render and the effects it schedules are part of the handler's step.  *)
(*                                                                         *)
(* The voice SDK (@11labs/react) and the browser are the environment:      *)
(* their promises settle either way, and their callbacks arrive whenever   *)
(* the session state allows.  The host view that wires the controller's    *)
(* callbacks (onPlayerStateChange, onStopConversation, onSetTime,          *)
(* onPlayStateChange) to the player's props is not part of the sources at  *)
(* hand; the Host... operators model it from the design text.              *)
(***************************************************************************)
EXTENDS Integers, Sequences, FiniteSets, TLC

\* ------------------------------------------------------------- bounds
\* startConversation invocations explored (each makes one getUserMedia call)
MaxStarts == 3
\* distinct session ids the SDK hands out
MaxSessionId == 2
\* playback positions (seconds) the controller is started at: 0..MaxStartTime
MaxStartTime == 1
\* length of the audio in the player specification
MaxTime == 12
\* object URLs created over the life of the player
MaxUrls == 5
\* the length of the streamed audio; the timestamps the lookup returns lie
\* within it, or (end_time) one past its end
MaxChunkTime == 2
\* files dropped on the upload area
MaxFiles == 2
\* status answers of 'processing' one upload receives
MaxPolls == 2

\* ---------------------------------------------------------- constants
\* fetchContext skips the request below this time (part_007:206)
ContextMinTime == 1
\* skip-forward / skip-back step (part_003:275, 281)
SkipStep == 10

NoId == 0
NoStream == 0
NoUrl == 0
NoFile == <<>>
SessionIds == 1..MaxSessionId
ChunkTexts == {"text"}
Procs == 1..MaxStarts

VARIABLES
  \* Conversation component (part_007:58-64, 104-105)
  isStarting, error, currentContext, mediaStreamRef, sessionId,
  \* every MediaStream getUserMedia has resolved with: the number of times
  \* its tracks were stopped (0 = live)
  streams,
  \* useConversation(): conversation.status ("disconnecting" while an
  \* endSession() call is pending)
  sdkStatus,
  \* the startConversation invocations: where each is suspended, its locals
  starts, nStarts,
  \* host view state handed to the player as props
  disabled, isPlaying, currentTime,
  \* the player's <audio> element and refs (part_003:200-203)
  audioPaused, audioTime, duration, skipUpdate,
  \* history: whether the player was playing when it was last disabled
  wasPlaying,
  \* the player's source: every object URL created so far with the number of
  \* times it was revoked, the audioUrl ref, the element's src, and whether
  \* the player is mounted (part_003:201-217)
  urls, audioUrlRef, audioSrc, mounted,
  \* the audioUrl prop the chunk tool was built with, and the play_chunk
  \* invocation (part_007:146-203)
  audioUrl, chunk,
  \* the FileUpload component (FileUpload.tsx:27-29, its upload in progress)
  \* and the Index page (Index.tsx:96-99, its fetches of processed audio)
  fileUpload, index,
  \* history: the handler that ran last, the outward calls it made in order,
  \* the number of error-reason disconnects delivered so far and of the
  \* startConversation calls onDisconnect has made
  last, out, errDisc, reconnects

ctlVars == <<isStarting, error, currentContext, mediaStreamRef, sessionId,
             streams, sdkStatus, starts, nStarts, errDisc, reconnects>>
playerVars == <<audioTime, duration, skipUpdate>>
srcVars == <<urls, audioUrlRef, audioSrc, mounted>>
chunkVars == <<audioUrl, chunk>>
uploadVars == <<fileUpload, index>>
extVars == <<srcVars, chunkVars, uploadVars>>
vars == <<isStarting, error, currentContext, mediaStreamRef, sessionId,
          streams, sdkStatus, starts, nStarts,
          disabled, isPlaying, currentTime,
          audioPaused, audioTime, duration, skipUpdate, wasPlaying,
          urls, audioUrlRef, audioSrc, mounted, audioUrl, chunk, fileUpload, index,
          last, out, errDisc, reconnects>>

\* ------------------------------------------------------------ helpers
Count(x, s) == Cardinality({k \in 1..Len(s) : s[k] = x})

\* a startConversation invocation: where it is suspended and its locals
\* (existingSessionId, contextData, conversationHistory, nextFirstMessage)
\* and whether onDisconnect made the call; history: the fetch it was waiting
\* for ("ctx", "hist") when a session last ended through stop, onError or a
\* disconnect, "no" when none did
IdleProc == [pc |-> "idle", sid |-> NoId, ctx |-> "null", hist |-> "", fm |-> "null",
             auto |-> FALSE, stale |-> "no"]
DoneProc == [IdleProc EXCEPT !.pc = "done"]

\* a play_chunk invocation: where it is suspended, its argument, the
\* timestamps looked up, the Audio instance it created (position, paused,
\* the position it was assigned), its promise and resolved value, the calls
\* it has made so far, and the primary player's position when it was invoked
IdleChunk == [pc |-> "idle", text |-> "", start_time |-> 0, end_time |-> 0,
              audio |-> FALSE, time |-> 0, paused |-> TRUE, seeked |-> 0,
              promise |-> "none", result |-> <<>>, calls |-> <<>>, p |-> 0]

\* one handleUpload / checkProcessingStatus chain: where it is suspended,
\* whether the upload response named the stored file; history: the calls of
\* onFileAccepted and setAudioFile it has made, the status answers of
\* 'processing' it has received, and the answer it ended with
IdleChain == [pc |-> "idle", named |-> FALSE, accepted |-> 0, setAudio |-> 0,
              polls |-> 0, result |-> "none"]

\* FileUpload: its flags, the chain of each file dropped on it, the uploads
\* made so far; history: the audio the page was showing in its player when
\* the last upload began
IdleUpload == [isUploading |-> FALSE, isProcessing |-> FALSE,
               chains |-> [f \in 1..MaxFiles |-> IdleChain],
               nUploads |-> 0, prior |-> NoFile]

\* Index: its state and the fetches of processed audio it is waiting for
LoadedIndex == [audioFile |-> <<0, "processed">>, isProcessing |-> FALSE,
                error |-> "null", fetches |-> {}]
EmptyIndex == [LoadedIndex EXCEPT !.audioFile = NoFile]

\* the name a step of invocation p is recorded under
Label(p, name) == IF p.auto THEN "auto_" \o name ELSE name

\* a session has ended: note the invocations that wait for a fetch
Mark(st) ==
  [i \in Procs |-> IF st[i].pc \in {"ctx", "hist"} /\ st[i].stale = "no"
                   THEN [st[i] EXCEPT !.stale = st[i].pc] ELSE st[i]]

\* a start that has neither connected nor failed
InFlight(p) == p.pc \in {"mic", "ctx", "hist", "session"}

\* ------------------------------------------------- host (from the design)
\* onPlayerStateChange(d): the host hands d to the player as its disabled prop
HostOnPlayerStateChange(d) == d
\* onPlayStateChange(p): the host stores p as isPlaying
HostOnPlayStateChange(p) == p
\* onStopConversation(): the host resumes playback
HostOnStopConversation == TRUE

\* --------------------------------------------------- player: play effect
\* faulty variant: the effect without its disabled branch (as in the first AudioReader)
PlayEffect_IgnoreDisabled(playing, dis) ==
  IF playing THEN [paused |-> FALSE, isPlaying |-> playing]
  ELSE [paused |-> TRUE, isPlaying |-> playing]

\* faulty variant: the disabled branch pauses but does not report it
PlayEffect_KeepPlaying(playing, dis) ==
  IF dis THEN [paused |-> TRUE, isPlaying |-> playing]
  ELSE IF playing THEN [paused |-> FALSE, isPlaying |-> playing]
  ELSE [paused |-> TRUE, isPlaying |-> playing]

\* useEffect on [isPlaying, disabled]: what the <audio> element and the
\* host's isPlaying are once the effect (and the re-render its
\* onPlayStateChange(false) causes) has run
PlayEffect(playing, dis) ==
  IF dis THEN [paused |-> TRUE, isPlaying |-> HostOnPlayStateChange(FALSE)]
  ELSE IF playing THEN [paused |-> FALSE, isPlaying |-> playing]
  ELSE [paused |-> TRUE, isPlaying |-> playing]

\* handlePlayPause: the notification made for a click
PlayPauseCalls(dis) == IF ~dis THEN <<"onPlayStateChange">> ELSE <<>>

\* the host re-renders the player with isPlaying = p and disabled = d
Render(p, d) ==
  /\ disabled' = d
  /\ isPlaying' = PlayEffect(p, d).isPlaying
  /\ audioPaused' = PlayEffect(p, d).paused
  /\ wasPlaying' = (IF d /\ ~disabled THEN isPlaying ELSE wasPlaying)

\* ------------------------------------------------ controller: helpers
\* faulty variant: the tracks are stopped but the reference is kept
cleanupMediaStream_KeepRef(ref, strs) ==
  IF ref # NoStream
  THEN [ref |-> ref, strs |-> [strs EXCEPT ![ref] = @ + 1],
        calls |-> <<"track.stop">>]
  ELSE [ref |-> ref, strs |-> strs, calls |-> <<>>]

\* cleanupMediaStream: the new mediaStreamRef, the streams, the calls made
cleanupMediaStream(ref, strs) ==
  IF ref # NoStream
  THEN [ref |-> NoStream, strs |-> [strs EXCEPT ![ref] = @ + 1],
        calls |-> <<"track.stop">>]
  ELSE [ref |-> ref, strs |-> strs, calls |-> <<>>]

\* faulty variant: reconnect on every disconnect
DisconnectBranch_AnyReason(reason, sid) ==
  IF sid # NoId THEN "reconnect" ELSE "notify"

\* faulty variant: never reconnect
DisconnectBranch_Never(reason, sid) ==
  IF reason = "error" THEN "none" ELSE "notify"

\* onDisconnect: reason 'error' reconnects when currentSessionIdRef holds a
\* string and does nothing otherwise; any other reason notifies the host
DisconnectBranch(reason, sid) ==
  IF reason = "error"
  THEN IF sid # NoId THEN "reconnect" ELSE "none"
  ELSE "notify"

\* the start/stop button: disabled={isStarting}
ButtonEnabled == ~isStarting

\* faulty variant: the button starts without the recorded id
ButtonStartArg_None(sid) == NoId

\* the button's start: startConversation(sessionId || undefined)
ButtonStartArg(sid) == sid

\* faulty variant: the context is requested at every position
SkipContext_Never(t) == FALSE

\* fetchContext: no request below ContextMinTime
SkipContext(t) == t < ContextMinTime

\* dynamicVariables of startSession
SessionArgs(p) ==
  [sessionId |-> p.sid,
   context |-> IF p.ctx = "null" THEN "No context available yet" ELSE p.ctx,
   history |-> IF p.hist = "" THEN "No history available yet" ELSE p.hist,
   first_message |-> IF p.fm = "null" THEN "Hi, I'm Book Buddy" ELSE p.fm]

\* faulty variant: the session is opened without the microphone
StartConversation_NoMicrophone(sid, auto) ==
  /\ nStarts < MaxStarts
  /\ isStarting' = TRUE
  /\ error' = "null"
  /\ Render(isPlaying, HostOnPlayerStateChange(TRUE))
  /\ nStarts' = nStarts + 1
  /\ starts' = [(IF auto THEN Mark(starts) ELSE starts) EXCEPT ![nStarts + 1] =
                  [IdleProc EXCEPT !.pc = "session", !.sid = sid, !.auto = auto]]
  /\ reconnects' = IF auto THEN reconnects + 1 ELSE reconnects
  /\ out' = <<"onStartConversation", "onPlayerStateChange(true)", "startSession">>

\* startConversation up to its first await: flags, host callbacks, and the
\* getUserMedia request
StartConversation(sid, auto) ==
  /\ nStarts < MaxStarts
  /\ isStarting' = TRUE
  /\ error' = "null"
  /\ Render(isPlaying, HostOnPlayerStateChange(TRUE))
  /\ nStarts' = nStarts + 1
  /\ starts' = [(IF auto THEN Mark(starts) ELSE starts) EXCEPT ![nStarts + 1] =
                  [IdleProc EXCEPT !.pc = "mic", !.sid = sid, !.auto = auto]]
  /\ reconnects' = IF auto THEN reconnects + 1 ELSE reconnects
  /\ out' = <<"onStartConversation", "onPlayerStateChange(true)", "getUserMedia">>

\* the catch block of startConversation
StartCatch(i) ==
  /\ error' = "startFailed"
  /\ isStarting' = FALSE
  /\ currentContext' = "null"
  /\ mediaStreamRef' = cleanupMediaStream(mediaStreamRef, streams).ref
  /\ streams' = cleanupMediaStream(mediaStreamRef, streams).strs
  /\ Render(isPlaying, HostOnPlayerStateChange(FALSE))
  /\ starts' = [starts EXCEPT ![i] = DoneProc]
  /\ out' = <<"catch">> \o cleanupMediaStream(mediaStreamRef, streams).calls
             \o <<"onPlayerStateChange(false)">>

\* setHistory .. conversation.startSession(...): the call is made and awaited
CallStartSession(i, p) ==
  /\ starts' = [starts EXCEPT ![i] = [p EXCEPT !.pc = "session"]]
  /\ sdkStatus' = IF sdkStatus = "disconnected" THEN "connecting" ELSE sdkStatus
  /\ out' = <<"startSession">>

\* from setCurrentContext on: fetch the history when a session id was given
AfterContext(i, p) ==
  /\ currentContext' = p.ctx
  /\ IF p.sid # NoId
     THEN /\ starts' = [starts EXCEPT ![i] = [p EXCEPT !.pc = "hist"]]
          /\ out' = <<"fetchHistory">>
          /\ UNCHANGED <<sdkStatus>>
     ELSE CallStartSession(i, p)

\* ------------------------------------------------- controller: actions
\* the button, while no session is connected
ClickStart ==
  /\ ButtonEnabled
  /\ sdkStatus # "connected"
  /\ StartConversation(ButtonStartArg(sessionId), FALSE)
  /\ UNCHANGED extVars
  /\ last' = "click_start"
  /\ UNCHANGED <<currentContext, mediaStreamRef, sessionId, streams, sdkStatus,
                 currentTime, errDisc>>
  /\ UNCHANGED playerVars

\* getUserMedia resolves
MicResolve(i) ==
  /\ starts[i].pc = "mic"
  /\ LET s == Len(streams) + 1
         p == starts[i]
     IN /\ streams' = Append(streams, 0)
        /\ mediaStreamRef' = s
        /\ IF SkipContext(currentTime)
           THEN AfterContext(i, [p EXCEPT !.ctx = "null"])
           ELSE /\ starts' = [starts EXCEPT ![i].pc = "ctx"]
                /\ out' = <<"fetchContext">>
                /\ UNCHANGED <<currentContext, sdkStatus>>
  /\ UNCHANGED extVars
  /\ last' = "mic_ok"
  /\ UNCHANGED <<isStarting, error, sessionId, nStarts, errDisc, reconnects,
                 disabled, isPlaying, currentTime, audioPaused, wasPlaying>>
  /\ UNCHANGED playerVars

\* getUserMedia rejects
MicReject(i) ==
  /\ starts[i].pc = "mic"
  /\ StartCatch(i)
  /\ UNCHANGED extVars
  /\ last' = Label(starts[i], "mic_denied")
  /\ UNCHANGED <<sessionId, sdkStatus, nStarts, errDisc, reconnects,
                 currentTime>>
  /\ UNCHANGED playerVars

\* the context request settles
ContextSettle(i, ok) ==
  /\ starts[i].pc = "ctx"
  /\ error' = IF ok THEN error ELSE "contextFailed"
  /\ AfterContext(i, [starts[i] EXCEPT !.ctx = IF ok THEN "ctx" ELSE "null"])
  /\ UNCHANGED extVars
  /\ last' = "ctx_done"
  /\ UNCHANGED <<isStarting, mediaStreamRef, sessionId, streams, nStarts,
                 errDisc, reconnects, disabled, isPlaying, currentTime, audioPaused, wasPlaying>>
  /\ UNCHANGED playerVars

\* the history request settles (a failure is caught inside
\* fetchConversationHistory, which then returns '')
HistorySettle(i, ok) ==
  /\ starts[i].pc = "hist"
  /\ CallStartSession(i, [starts[i] EXCEPT !.hist = IF ok THEN "h" ELSE "",
                                           !.fm = "lets continue?"])
  /\ UNCHANGED extVars
  /\ last' = "hist_done"
  /\ UNCHANGED <<isStarting, error, currentContext, mediaStreamRef, sessionId,
                 streams, nStarts, errDisc, reconnects,
                 disabled, isPlaying, currentTime, audioPaused, wasPlaying>>
  /\ UNCHANGED playerVars

\* startSession resolves with id: onConnect has run when the session was not
\* open yet; then updateSessionId and setVolume, which returns at once or
\* throws into the catch block
SessionResolve(i, id, volThrows) ==
  /\ starts[i].pc = "session"
  /\ sdkStatus \in {"disconnected", "connecting", "connected"}
  /\ sdkStatus' = "connected"
  /\ sessionId' = id
  /\ IF ~volThrows
     THEN /\ isStarting' = (IF sdkStatus # "connected" THEN FALSE ELSE isStarting)
          /\ error' = (IF sdkStatus # "connected" THEN "null" ELSE error)
          /\ starts' = [starts EXCEPT ![i] = DoneProc]
          /\ out' = <<"setVolume">>
          /\ UNCHANGED <<currentContext, mediaStreamRef, streams,
                         disabled, isPlaying, audioPaused, wasPlaying>>
     ELSE /\ StartCatch(i)
  /\ UNCHANGED extVars
  /\ last' = Label(starts[i], IF volThrows THEN "volume_fail" ELSE "session_ok")
  /\ UNCHANGED <<nStarts, errDisc, reconnects, currentTime>>
  /\ UNCHANGED playerVars

\* startSession rejects
SessionReject(i) ==
  /\ starts[i].pc = "session"
  /\ sdkStatus \in {"disconnected", "connecting"}
  /\ sdkStatus' = "disconnected"
  /\ StartCatch(i)
  /\ UNCHANGED extVars
  /\ last' = Label(starts[i], "session_fail")
  /\ UNCHANGED <<sessionId, nStarts, errDisc, reconnects, currentTime>>
  /\ UNCHANGED playerVars

\* onError
OnError ==
  /\ sdkStatus \in {"connecting", "connected"}
  /\ error' = "sdkError"
  /\ isStarting' = FALSE
  /\ mediaStreamRef' = cleanupMediaStream(mediaStreamRef, streams).ref
  /\ streams' = cleanupMediaStream(mediaStreamRef, streams).strs
  /\ out' = cleanupMediaStream(mediaStreamRef, streams).calls
  /\ starts' = Mark(starts)
  /\ UNCHANGED extVars
  /\ last' = "sdk_error"
  /\ UNCHANGED <<currentContext, sessionId, sdkStatus, nStarts,
                 errDisc, reconnects, disabled, isPlaying, currentTime, audioPaused, wasPlaying>>
  /\ UNCHANGED playerVars

\* onDisconnect, delivered by the SDK for a session it ends itself
OnDisconnect(reason) ==
  /\ sdkStatus = "connected"
  /\ sdkStatus' = "disconnected"
  /\ errDisc' = IF reason = "error" THEN errDisc + 1 ELSE errDisc
  /\ LET b == DisconnectBranch(reason, sessionId)
     IN IF b = "reconnect"
        THEN /\ StartConversation(sessionId, TRUE)
             /\ UNCHANGED <<currentContext, mediaStreamRef, streams>>
        ELSE IF b = "notify"
        THEN /\ Render(HostOnStopConversation, disabled)
             /\ out' = <<"onStopConversation">>
             /\ starts' = Mark(starts)
             /\ UNCHANGED <<isStarting, error, currentContext, mediaStreamRef,
                            streams, nStarts, reconnects>>
        ELSE /\ out' = <<>>
             /\ starts' = Mark(starts)
             /\ UNCHANGED <<isStarting, error, currentContext, mediaStreamRef,
                            streams, nStarts, reconnects,
                            disabled, isPlaying, audioPaused, wasPlaying>>
  /\ UNCHANGED extVars
  /\ last' = "disconnect_" \o reason
  /\ UNCHANGED <<sessionId, currentTime>>
  /\ UNCHANGED playerVars

\* the button, while the session is connected: stopConversation up to its
\* await of endSession
ClickStop ==
  /\ ButtonEnabled
  /\ sdkStatus = "connected"
  /\ sdkStatus' = "disconnecting"
  /\ out' = <<"endSession">>
  /\ UNCHANGED extVars
  /\ last' = "click_stop"
  /\ UNCHANGED <<isStarting, error, currentContext, mediaStreamRef, sessionId,
                 streams, starts, nStarts, errDisc, reconnects,
                 disabled, isPlaying, currentTime, audioPaused, wasPlaying>>
  /\ UNCHANGED playerVars

\* endSession resolves: the SDK has delivered onDisconnect({reason: 'user'}),
\* then stopConversation releases and notifies
StopResolve ==
  /\ sdkStatus = "disconnecting"
  /\ sdkStatus' = "disconnected"
  /\ currentContext' = "null"
  /\ mediaStreamRef' = cleanupMediaStream(mediaStreamRef, streams).ref
  /\ streams' = cleanupMediaStream(mediaStreamRef, streams).strs
  /\ Render(HostOnStopConversation, HostOnPlayerStateChange(FALSE))
  /\ out' = <<"onStopConversation">> \o cleanupMediaStream(mediaStreamRef, streams).calls
             \o <<"onPlayerStateChange(false)", "onStopConversation">>
  /\ UNCHANGED extVars
  /\ last' = "stop_ok"
  /\ starts' = Mark(starts)
  /\ UNCHANGED <<isStarting, error, sessionId, nStarts,
                 errDisc, reconnects, currentTime>>
  /\ UNCHANGED playerVars

\* endSession rejects: the catch block of stopConversation; the SDK may or
\* may not have closed the session
StopReject(closed) ==
  /\ sdkStatus = "disconnecting"
  /\ sdkStatus' = IF closed THEN "disconnected" ELSE "connected"
  /\ error' = "stopFailed"
  /\ out' = <<>>
  /\ UNCHANGED extVars
  /\ last' = "stop_fail"
  /\ UNCHANGED <<isStarting, currentContext, mediaStreamRef, sessionId, streams,
                 starts, nStarts, errDisc, reconnects,
                 disabled, isPlaying, currentTime, audioPaused, wasPlaying>>
  /\ UNCHANGED playerVars

\* the player's play/pause button
HandlePlayPause ==
  /\ out' = PlayPauseCalls(disabled)
  /\ IF PlayPauseCalls(disabled) # <<>>
     THEN Render(HostOnPlayStateChange(~isPlaying), disabled)
     ELSE UNCHANGED <<disabled, isPlaying, audioPaused, wasPlaying>>
  /\ UNCHANGED extVars
  /\ last' = "play_pause"
  /\ UNCHANGED ctlVars
  /\ UNCHANGED currentTime
  /\ UNCHANGED playerVars


\* ---------------------------------------------------- player: helpers
Min(a, b) == IF a <= b THEN a ELSE b
Max(a, b) == IF a >= b THEN a ELSE b

\* audio.currentTime = t: once the metadata is loaded the element keeps the
\* position inside its range; before that it stores t as the position
\* playback will start from, and reports it as its currentTime
SetAudioTime(t) == IF duration > 0 THEN Max(0, Min(t, duration)) ELSE Max(0, t)

\* the host stores the time it is notified of (Index.handleTimeUpdate)
HostOnTimeUpdate(t) == t
\* onSetTime(t): the host stores t as currentTime
HostOnSetTime(t) == t

\* faulty variant: handleTimeUpdate without the disabled test
handleTimeUpdate_Unguarded(dis) == <<"onTimeUpdate", "onContextUpdate">>

\* handleTimeUpdate: the notifications made for a media timeupdate event
handleTimeUpdate(dis) ==
  IF ~dis THEN <<"onTimeUpdate", "onContextUpdate">> ELSE <<>>
\* skipForward / skipBackward: the time requested at element position t
skipForward(t, dur) == Min(t + SkipStep, dur)
skipBackward(t) == Max(t - SkipStep, 0)

\* handleSliderChange, skipForward, skipBackward
handleSeek(dis) == IF ~dis THEN <<"onSetTime">> ELSE <<>>
\* <audio onEnded>
handleEnded(dis) == IF ~dis THEN <<"onPlayStateChange">> ELSE <<>>

\* the host's currentTime becomes t; useEffect on [currentTime] runs when it
\* changed: seek unless skipUpdate is set, then clear skipUpdate.  skip is
\* the value of skipUpdate.current when the effect runs.
SetCurrentTime(t, skip) ==
  /\ currentTime' = t
  /\ IF t # currentTime
     THEN /\ audioTime' = (IF ~skip THEN SetAudioTime(t) ELSE audioTime)
          /\ skipUpdate' = FALSE
     ELSE /\ audioTime' = audioTime
          /\ skipUpdate' = skip

\* the assignment to the element that effect makes
SeekCalls(t, skip) ==
  IF t # currentTime /\ ~skip THEN <<"audio.currentTime=">> ELSE <<>>

\* ---------------------------------------------------- player: actions
\* the host changes the disabled prop
HostSetDisabled(d) ==
  /\ d # disabled
  /\ Render(isPlaying, d)
  /\ out' = <<>>
  /\ UNCHANGED extVars
  /\ last' = (IF d THEN (IF isPlaying THEN "disable_playing" ELSE "disable_paused")
              ELSE "enable")
  /\ UNCHANGED ctlVars
  /\ UNCHANGED <<currentTime, audioTime, duration, skipUpdate>>

\* the host changes the isPlaying prop on its own (resume, pause)
HostSetPlaying(p) ==
  /\ p # isPlaying
  /\ Render(p, disabled)
  /\ out' = <<>>
  /\ UNCHANGED extVars
  /\ last' = "set_playing"
  /\ UNCHANGED ctlVars
  /\ UNCHANGED <<currentTime, audioTime, duration, skipUpdate>>

\* the host changes the currentTime prop on its own (position restore)
HostSetTime(t) ==
  /\ t # currentTime
  /\ SetCurrentTime(t, skipUpdate)
  /\ out' = SeekCalls(t, skipUpdate)
  /\ UNCHANGED extVars
  /\ last' = "set_time"
  /\ UNCHANGED ctlVars
  /\ UNCHANGED <<disabled, isPlaying, audioPaused, wasPlaying, duration>>

\* <audio onLoadedMetadata>: the element has moved to the position it was
\* given before the load, inside the range it now knows
HandleLoadedMetadata ==
  /\ duration = 0
  /\ duration' = MaxTime
  /\ audioTime' = Min(audioTime, MaxTime)
  /\ out' = <<>>
  /\ UNCHANGED extVars
  /\ last' = "loadedmetadata"
  /\ UNCHANGED ctlVars
  /\ UNCHANGED <<disabled, isPlaying, audioPaused, wasPlaying, currentTime, skipUpdate>>

\* <audio onTimeUpdate>: the element's clock has advanced by adv seconds of
\* playback (adv = 0: the event of a seek or of a pause); the event that
\* follows an assignment to the element's position is recorded as such
HandleTimeUpdate(adv) ==
  /\ duration > 0
  /\ adv > 0 => (~audioPaused /\ audioTime + adv <= duration)
  /\ LET time == audioTime + adv
         calls == handleTimeUpdate(disabled)
     IN /\ out' = calls
        /\ IF calls # <<>>
           THEN /\ currentTime' = HostOnTimeUpdate(time)
                /\ skipUpdate' = (HostOnTimeUpdate(time) = currentTime)
           ELSE UNCHANGED <<currentTime, skipUpdate>>
        /\ audioTime' = time
  /\ UNCHANGED extVars
  /\ last' = (IF adv = 0 /\ Count("audio.currentTime=", out) > 0
              THEN "timeupdate_seek" ELSE "timeupdate")
  /\ UNCHANGED ctlVars
  /\ UNCHANGED <<disabled, isPlaying, audioPaused, wasPlaying, duration>>

\* the slider's onValueChange (the slider ranges over 0..duration)
HandleSliderChange(t) ==
  /\ t <= duration
  /\ LET calls == handleSeek(disabled)
     IN /\ out' = calls \o (IF calls # <<>> THEN SeekCalls(HostOnSetTime(t), skipUpdate)
                            ELSE <<>>)
        /\ IF calls # <<>>
           THEN SetCurrentTime(HostOnSetTime(t), skipUpdate)
           ELSE UNCHANGED <<currentTime, audioTime, skipUpdate>>
  /\ UNCHANGED extVars
  /\ last' = "slider"
  /\ UNCHANGED ctlVars
  /\ UNCHANGED <<disabled, isPlaying, audioPaused, wasPlaying, duration>>

\* the skip buttons: dir = 1 forward, dir = -1 backward
Skip(dir) ==
  /\ LET calls == handleSeek(disabled)
         t == IF dir = 1 THEN skipForward(audioTime, duration)
              ELSE skipBackward(audioTime)
     IN /\ out' = calls \o (IF calls # <<>> THEN SeekCalls(HostOnSetTime(t), skipUpdate)
                            ELSE <<>>)
        /\ IF calls # <<>>
           THEN SetCurrentTime(HostOnSetTime(t), skipUpdate)
           ELSE UNCHANGED <<currentTime, audioTime, skipUpdate>>
  /\ UNCHANGED extVars
  /\ last' = "skip"
  /\ UNCHANGED ctlVars
  /\ UNCHANGED <<disabled, isPlaying, audioPaused, wasPlaying, duration>>

\* <audio onEnded>: playback has reached the end
HandleEnded ==
  /\ ~audioPaused /\ duration > 0 /\ audioTime = duration
  /\ LET calls == handleEnded(disabled)
     IN /\ out' = calls
        /\ IF calls # <<>>
           THEN Render(HostOnPlayStateChange(FALSE), disabled)
           ELSE UNCHANGED <<disabled, isPlaying, audioPaused, wasPlaying>>
  /\ UNCHANGED extVars
  /\ last' = "ended"
  /\ UNCHANGED ctlVars
  /\ UNCHANGED <<currentTime, audioTime, duration, skipUpdate>>

\* ------------------------------------------------- player: source handle
\* faulty variant: the cleanup revokes nothing
SourceCleanup_Skip(ref, us) == us

\* cleanup of the effect on [audioFile]: revoke the URL the ref holds
SourceCleanup(ref, us) ==
  IF ref # NoUrl THEN [us EXCEPT ![ref] = @ + 1] ELSE us

\* the effect on [audioFile]: create an object URL, keep it in the ref and
\* hand it to the element
SourceEffect(us) == [ref |-> Len(us) + 1, urls |-> Append(us, 0)]

\* the host hands the player another audioFile: cleanup of the last effect
\* run, then the effect; the element loads the new source from its start
ChangeAudioFile ==
  /\ mounted
  /\ Len(urls) < MaxUrls
  /\ LET us == SourceCleanup(audioUrlRef, urls)
     IN /\ urls' = SourceEffect(us).urls
        /\ audioUrlRef' = SourceEffect(us).ref
        /\ audioSrc' = SourceEffect(us).ref
  /\ audioTime' = 0
  /\ audioPaused' = TRUE
  /\ out' = <<"revokeObjectURL", "createObjectURL">>
  /\ last' = "change_file"
  /\ UNCHANGED ctlVars
  /\ UNCHANGED <<mounted, chunkVars, uploadVars>>
  /\ UNCHANGED <<disabled, isPlaying, wasPlaying, currentTime, duration, skipUpdate>>

\* the host removes the player: the cleanup runs, the element is gone
Unmount ==
  /\ mounted
  /\ mounted' = FALSE
  /\ urls' = SourceCleanup(audioUrlRef, urls)
  /\ audioSrc' = NoUrl
  /\ audioPaused' = TRUE
  /\ out' = <<"revokeObjectURL">>
  /\ last' = "unmount"
  /\ UNCHANGED ctlVars
  /\ UNCHANGED <<audioUrlRef, chunkVars, uploadVars>>
  /\ UNCHANGED <<disabled, isPlaying, wasPlaying, currentTime, audioTime, duration,
                 skipUpdate>>

\* the host renders a player again: a new instance with new state and refs
\* runs its effects (source, position, play state)
Mount ==
  /\ ~mounted
  /\ Len(urls) < MaxUrls
  /\ mounted' = TRUE
  /\ urls' = SourceEffect(urls).urls
  /\ audioUrlRef' = SourceEffect(urls).ref
  /\ audioSrc' = SourceEffect(urls).ref
  /\ duration' = 0
  /\ skipUpdate' = FALSE
  /\ audioTime' = Max(0, currentTime)
  /\ Render(isPlaying, disabled)
  /\ out' = <<"createObjectURL">>
  /\ last' = "mount"
  /\ UNCHANGED ctlVars
  /\ UNCHANGED <<currentTime, chunkVars, uploadVars>>

\* ------------------------------------------------------- chunk player
\* faulty variant: play_chunk without its test of audioUrl
RequireSource_Skip(url) == TRUE

\* play_chunk: if (!audioUrl) throw
RequireSource(url) == url # "null"

\* faulty variant: the first frame resolves
checkTime_Always(time, end) == "resolve"

\* checkTime: resolve once the instance has reached end_time, else poll again
checkTime(time, end) == IF time >= end THEN "resolve" ELSE "poll"

\* the value play_chunk resolves with
PlayedChunk(text, st, en) ==
  [status |-> "success", text |-> text, start |-> st, end |-> en]

\* a promise settles once: resolve and reject after that change nothing
Settle(promise, to) == IF promise = "pending" THEN to ELSE promise

\* faulty variant: a failure of the instance is only logged
OnChunkError_Ignore(promise) == promise

\* the catch of play() and the instance's onerror: reject(error)
OnChunkError(promise) == Settle(promise, "rejected")

\* play_chunk touches nothing but its own locals and instance
ChunkOnly ==
  /\ UNCHANGED ctlVars
  /\ UNCHANGED <<disabled, isPlaying, currentTime, audioPaused, wasPlaying>>
  /\ UNCHANGED playerVars
  /\ UNCHANGED <<srcVars, audioUrl, uploadVars>>

\* the agent invokes the tool: play_chunk up to its first await, or its throw
PlayChunk(text) ==
  /\ sdkStatus = "connected"
  /\ chunk.pc \in {"idle", "done"}
  /\ IF RequireSource(audioUrl)
     THEN /\ chunk' = [IdleChunk EXCEPT !.pc = "delay", !.text = text,
                                        !.promise = "pending",
                                        !.calls = <<"setTimeout">>, !.p = audioTime]
          /\ out' = <<"setTimeout">>
          /\ last' = "chunk_invoked"
     ELSE /\ chunk' = [IdleChunk EXCEPT !.pc = "done", !.text = text,
                                        !.promise = "rejected", !.p = audioTime]
          /\ out' = <<>>
          /\ last' = "chunk_nostream"
  /\ ChunkOnly

\* the settling delay has passed: getAudioTimestamps is called
ChunkDelayDone ==
  /\ chunk.pc = "delay"
  /\ chunk' = [chunk EXCEPT !.pc = "lookup", !.calls = @ \o <<"fetchTimestamps">>]
  /\ out' = <<"fetchTimestamps">>
  /\ last' = "chunk_delay_done"
  /\ ChunkOnly

\* the timestamp lookup settles: on success the instance is created, given
\* its position and started, and its onerror is set
ChunkLookupSettle(ok, st, en) ==
  /\ chunk.pc = "lookup"
  /\ IF ok
     THEN /\ chunk' = [chunk EXCEPT !.pc = "starting", !.start_time = st,
                                    !.end_time = en, !.audio = TRUE, !.time = st,
                                    !.seeked = st, !.paused = FALSE,
                                    !.calls = @ \o <<"new Audio", "currentTime=",
                                                     "play", "onerror=">>]
          /\ out' = <<"new Audio", "currentTime=", "play", "onerror=">>
          /\ last' = "chunk_lookup_ok"
     ELSE /\ chunk' = [chunk EXCEPT !.pc = "done", !.promise = "rejected"]
          /\ out' = <<>>
          /\ last' = "chunk_lookup_fail"
  /\ ChunkOnly

\* play() resolves: the first frame is requested
ChunkPlayResolve ==
  /\ chunk.pc = "starting"
  /\ chunk' = [chunk EXCEPT !.pc = "polling",
                            !.calls = @ \o <<"requestAnimationFrame">>]
  /\ out' = <<"requestAnimationFrame">>
  /\ last' = "chunk_play_ok"
  /\ ChunkOnly

\* play() rejects
ChunkPlayReject ==
  /\ chunk.pc = "starting"
  /\ chunk' = [chunk EXCEPT !.pc = "done", !.paused = TRUE,
                            !.promise = OnChunkError(chunk.promise)]
  /\ out' = <<>>
  /\ last' = "chunk_play_reject"
  /\ ChunkOnly

\* the instance plays on
ChunkTick ==
  /\ chunk.pc = "polling"
  /\ ~chunk.paused
  /\ chunk.time < MaxChunkTime
  /\ chunk' = [chunk EXCEPT !.time = @ + 1]
  /\ out' = <<>>
  /\ last' = "chunk_tick"
  /\ ChunkOnly

\* a display frame: checkTime
ChunkFrame ==
  /\ chunk.pc = "polling"
  /\ IF checkTime(chunk.time, chunk.end_time) = "resolve"
     THEN /\ chunk' = [chunk EXCEPT
                         !.pc = "done", !.paused = TRUE,
                         !.promise = Settle(chunk.promise, "resolved"),
                         !.result = IF chunk.promise = "pending"
                                    THEN PlayedChunk(chunk.text, chunk.start_time,
                                                     chunk.end_time)
                                    ELSE chunk.result,
                         !.calls = @ \o <<"pause">>]
          /\ out' = <<"pause">>
          /\ last' = "chunk_frame_end"
     ELSE /\ chunk' = chunk
          /\ out' = <<"requestAnimationFrame">>
          /\ last' = "chunk_poll"
  /\ ChunkOnly

\* the instance's error event
ChunkError ==
  /\ chunk.pc \in {"starting", "polling"}
  /\ chunk.promise = "pending"
  /\ chunk' = [chunk EXCEPT !.promise = OnChunkError(chunk.promise)]
  /\ out' = <<>>
  /\ last' = "chunk_error"
  /\ ChunkOnly

\* ------------------------------------------------- upload and page
\* Index renders the player iff it has a file and is not processing
PlayerShown(ix) == ix.audioFile # NoFile /\ ~ix.isProcessing

\* Index.handleFileAccepted(file): the raw upload becomes the page's file
handleFileAccepted(ix, f) ==
  [ix EXCEPT !.error = "null", !.audioFile = <<f, "raw">>, !.isProcessing = TRUE]

\* Index.handleProcessedAudio(filename), up to its return or its await
handleProcessedAudio(ix, f, named) ==
  IF ~named
  THEN [ix EXCEPT !.error = "Processing Error", !.isProcessing = FALSE]
  ELSE [ix EXCEPT !.fetches = @ \cup {f}]

\* the upload and the page touch nothing of the session or the player
UploadOnly ==
  /\ UNCHANGED ctlVars
  /\ UNCHANGED <<disabled, isPlaying, currentTime, audioPaused, wasPlaying>>
  /\ UNCHANGED playerVars
  /\ UNCHANGED <<srcVars, chunkVars>>

\* faulty variant: the dropzone is never disabled
DropzoneDisabled_Never(fu) == FALSE

\* useDropzone({ disabled: isUploading || isProcessing })
DropzoneDisabled(fu) == fu.isUploading \/ fu.isProcessing

\* onDrop: handleUpload up to the await of the upload request
OnDrop ==
  /\ ~DropzoneDisabled(fileUpload)
  /\ fileUpload.nUploads < MaxFiles
  /\ fileUpload' = [fileUpload EXCEPT
                      !.isUploading = TRUE,
                      !.chains[fileUpload.nUploads + 1].pc = "upload",
                      !.nUploads = @ + 1,
                      !.prior = IF PlayerShown(index) THEN index.audioFile
                                ELSE NoFile]
  /\ index' = index
  /\ out' = <<>>
  /\ last' = "drop"
  /\ UploadOnly

\* the upload request of file f succeeds: the rest of handleUpload, with
\* onFileAccepted and the start of checkProcessingStatus
UploadResolve(f, named) ==
  /\ fileUpload.chains[f].pc = "upload"
  /\ fileUpload' = [fileUpload EXCEPT
                      !.isUploading = FALSE, !.isProcessing = TRUE,
                      !.chains[f].pc = "status", !.chains[f].named = named,
                      !.chains[f].accepted = @ + 1]
  /\ index' = handleFileAccepted(index, f)
  /\ out' = <<"toast Upload Complete", "onFileAccepted", "fetch status">>
  /\ last' = "upload_ok"
  /\ UploadOnly

\* the upload request of file f fails: the catch block of handleUpload
UploadReject(f) ==
  /\ fileUpload.chains[f].pc = "upload"
  /\ fileUpload' = [fileUpload EXCEPT
                      !.isUploading = FALSE, !.isProcessing = FALSE,
                      !.chains[f].pc = "done", !.chains[f].result = "rejected"]
  /\ index' = index
  /\ out' = <<"toast Error">>
  /\ last' = "upload_error"
  /\ UploadOnly

\* the status request of file f settles: the rest of checkProcessingStatus
\* (with the timer and the next request, when the answer is 'processing')
StatusSettle(f, r) ==
  /\ fileUpload.chains[f].pc = "status"
  /\ CASE r = "completed" ->
            /\ fileUpload' = [fileUpload EXCEPT
                                !.isProcessing = FALSE,
                                !.chains[f].pc = "done",
                                !.chains[f].result = r,
                                !.chains[f].setAudio = @ + 1]
            /\ index' = handleProcessedAudio(index, f, fileUpload.chains[f].named)
            /\ out' = <<"setAudioFile", "toast Success">>
            /\ last' = IF fileUpload.chains[f].named THEN "status_completed"
                       ELSE "missing_filename"
       [] r = "failed" ->
            /\ fileUpload' = [fileUpload EXCEPT
                                !.isProcessing = FALSE,
                                !.chains[f].pc = "done",
                                !.chains[f].result = r]
            /\ index' = index
            /\ out' = <<"toast Error">>
            /\ last' = "status_failed"
       [] r = "processing" ->
            /\ fileUpload.chains[f].polls < MaxPolls
            /\ fileUpload' = [fileUpload EXCEPT
                                !.chains[f].polls = @ + 1,
                                !.chains[f].result = r]
            /\ index' = index
            /\ out' = <<"setTimeout">>
            /\ last' = "status_processing"
       [] OTHER ->
            /\ fileUpload' = [fileUpload EXCEPT
                                !.isProcessing = FALSE,
                                !.chains[f].pc = "done",
                                !.chains[f].result = "error"]
            /\ index' = index
            /\ out' = <<"toast Error">>
            /\ last' = "status_error"
  /\ UploadOnly

\* the fetch of the processed audio settles: the rest of
\* handleProcessedAudio
FetchSettle(f, ok) ==
  /\ f \in index.fetches
  /\ index' = IF ok
              THEN [index EXCEPT !.audioFile = <<f, "processed">>,
                                 !.isProcessing = FALSE, !.error = "null",
                                 !.fetches = @ \ {f}]
              ELSE [index EXCEPT !.error = "Processing Error",
                                 !.isProcessing = FALSE,
                                 !.fetches = @ \ {f}]
  /\ fileUpload' = fileUpload
  /\ out' = <<>>
  /\ last' = IF ok THEN "fetch_ok" ELSE "fetch_error"
  /\ UploadOnly

Init ==
  /\ isStarting = FALSE
  /\ error = "null"
  /\ currentContext = "null"
  /\ mediaStreamRef = NoStream
  /\ sessionId = NoId
  /\ streams = <<>>
  /\ sdkStatus = "disconnected"
  /\ starts = [i \in Procs |-> IdleProc]
  /\ nStarts = 0
  /\ disabled = FALSE
  /\ isPlaying = FALSE
  /\ currentTime \in 0..MaxStartTime
  /\ audioPaused = TRUE
  /\ audioTime = currentTime
  /\ duration = 0
  /\ skipUpdate = FALSE
  /\ wasPlaying = FALSE
  /\ urls = <<0>>
  /\ audioUrlRef = 1
  /\ audioSrc = 1
  /\ mounted = TRUE
  /\ audioUrl = "null"
  /\ chunk = IdleChunk
  /\ fileUpload = IdleUpload
  /\ index = LoadedIndex
  /\ last = "init"
  /\ out = <<>>
  /\ errDisc = 0
  /\ reconnects = 0

Next ==
  \/ ClickStart
  \/ \E i \in Procs : MicResolve(i)
  \/ \E i \in Procs : MicReject(i)
  \/ \E i \in Procs, ok \in BOOLEAN : ContextSettle(i, ok)
  \/ \E i \in Procs, ok \in BOOLEAN : HistorySettle(i, ok)
  \/ \E i \in Procs, id \in SessionIds, v \in BOOLEAN : SessionResolve(i, id, v)
  \/ \E i \in Procs : SessionReject(i)
  \/ OnError
  \/ \E r \in {"agent", "error"} : OnDisconnect(r)
  \/ ClickStop
  \/ StopResolve
  \/ \E c \in BOOLEAN : StopReject(c)
  \/ HandlePlayPause

Spec == Init /\ [][Next]_vars

\* the player on its own, under a host that changes its props at will
InitPlayer == Init /\ currentTime = 0

NextPlayer ==
  \/ \E d \in BOOLEAN : HostSetDisabled(d)
  \/ \E p \in BOOLEAN : HostSetPlaying(p)
  \/ \E t \in 0..(MaxTime + 1) : HostSetTime(t)
  \/ HandleLoadedMetadata
  \/ \E adv \in 0..1 : HandleTimeUpdate(adv)
  \/ \E t \in 0..MaxTime : HandleSliderChange(t)
  \/ \E dir \in {-1, 1} : Skip(dir)
  \/ HandlePlayPause
  \/ HandleEnded

SpecPlayer == InitPlayer /\ [][NextPlayer]_vars

\* the player over its life: source changes, teardown and a new mount, with
\* the play state changing while it is mounted
NextSource ==
  \/ ChangeAudioFile
  \/ Unmount
  \/ Mount
  \/ (mounted /\ \E d \in BOOLEAN : HostSetDisabled(d))
  \/ (mounted /\ \E p \in BOOLEAN : HostSetPlaying(p))
  \/ (mounted /\ HandlePlayPause)

SpecSource == InitPlayer /\ [][NextSource]_vars

\* the chunk tool during a connected session.  The session was opened from
\* the initial state by ClickStart, MicResolve and SessionResolve; in the
\* second case setVolume threw, so the catch block has released the
\* microphone and re-enabled the player while the session stays open.
InitChunk ==
  /\ isStarting = FALSE
  /\ currentContext = "null"
  /\ sessionId = 1
  /\ sdkStatus = "connected"
  /\ starts = [i \in Procs |-> IF i = 1 THEN DoneProc ELSE IdleProc]
  /\ nStarts = 1
  /\ \/ /\ error = "null"
        /\ mediaStreamRef = 1
        /\ streams = <<0>>
        /\ disabled = TRUE
        /\ last = "session_ok"
        /\ out = <<"setVolume">>
     \/ /\ error = "startFailed"
        /\ mediaStreamRef = NoStream
        /\ streams = <<1>>
        /\ disabled = FALSE
        /\ last = "volume_fail"
        /\ out = <<"catch", "track.stop", "onPlayerStateChange(false)">>
  /\ isPlaying = FALSE
  /\ currentTime = 0
  /\ audioPaused = TRUE
  /\ audioTime = 0
  /\ duration = 0
  /\ skipUpdate = FALSE
  /\ wasPlaying = FALSE
  /\ urls = <<0>>
  /\ audioUrlRef = 1
  /\ audioSrc = 1
  /\ mounted = TRUE
  /\ audioUrl \in {"null", "url"}
  /\ chunk = IdleChunk
  /\ fileUpload = IdleUpload
  /\ index = LoadedIndex
  /\ errDisc = 0
  /\ reconnects = 0

NextChunk ==
  \/ \E text \in ChunkTexts : PlayChunk(text)
  \/ ChunkDelayDone
  \/ \E ok \in BOOLEAN, st \in 0..MaxChunkTime, en \in 0..(MaxChunkTime + 1) :
        ChunkLookupSettle(ok, st, en)
  \/ ChunkPlayResolve
  \/ ChunkPlayReject
  \/ ChunkTick
  \/ ChunkFrame
  \/ ChunkError
  \/ HandleLoadedMetadata
  \/ \E p \in BOOLEAN : HostSetPlaying(p)
  \/ \E adv \in 0..1 : HandleTimeUpdate(adv)

SpecChunk == InitChunk /\ [][NextChunk]_vars

\* the same, with the progress the browser guarantees: play() settles, the
\* instance plays on until its end, and a requested display frame arrives.
\* An error event of the instance is possible but never certain.
SpecChunkLive ==
  /\ SpecChunk
  /\ WF_vars(ChunkPlayResolve \/ ChunkPlayReject)
  /\ WF_vars(ChunkTick)
  /\ WF_vars(ChunkFrame)

\* the page and its upload component.  The page starts without a file, or
\* with the processed audio of an earlier upload in its player.
InitUpload ==
  \/ InitPlayer
  \/ /\ isStarting = FALSE
     /\ error = "null"
     /\ currentContext = "null"
     /\ mediaStreamRef = NoStream
     /\ sessionId = NoId
     /\ streams = <<>>
     /\ sdkStatus = "disconnected"
     /\ starts = [i \in Procs |-> IdleProc]
     /\ nStarts = 0
     /\ disabled = FALSE
     /\ isPlaying = FALSE
     /\ currentTime = 0
     /\ audioPaused = TRUE
     /\ audioTime = 0
     /\ duration = 0
     /\ skipUpdate = FALSE
     /\ wasPlaying = FALSE
     /\ urls = <<>>
     /\ audioUrlRef = NoUrl
     /\ audioSrc = NoUrl
     /\ mounted = FALSE
     /\ audioUrl = "null"
     /\ chunk = IdleChunk
     /\ fileUpload = IdleUpload
     /\ index = EmptyIndex
     /\ last = "init"
     /\ out = <<>>
     /\ errDisc = 0
     /\ reconnects = 0

NextUpload ==
  \/ OnDrop
  \/ \E f \in 1..MaxFiles, named \in BOOLEAN : UploadResolve(f, named)
  \/ \E f \in 1..MaxFiles : UploadReject(f)
  \/ \E f \in 1..MaxFiles, r \in {"completed", "failed", "processing", "error"} :
        StatusSettle(f, r)
  \/ \E f \in 1..MaxFiles, ok \in BOOLEAN : FetchSettle(f, ok)

SpecUpload == InitUpload /\ [][NextUpload]_vars

\* ------------------------------------------------------------- claims
LiveStreams == {s \in 1..Len(streams) : streams[s] = 0}
AtSession == {i \in Procs : starts[i].pc = "session"}
\* the step just taken invoked startConversation
Invoked == last \in {"click_start", "disconnect_error"} /\ Count("getUserMedia", out) > 0
\* ... while an earlier invocation had neither connected nor failed
InvokedWhileInFlight == Invoked /\ \E j \in 1..(nStarts - 1) : InFlight(starts[j])
AutoFailed == last \in {"auto_mic_denied", "auto_session_fail", "auto_volume_fail"}
\* the reconnect attempt ended without a session
ReconnectFailed == last \in {"auto_mic_denied", "auto_session_fail"}

\* C1: a start invoked while an earlier start is still in flight makes no
\* getUserMedia call of its own, and no two startSession calls of overlapping
\* invocations are ever pending together (one acquisition, one session start).
C1_OneStartInFlight ==
  /\ ~InvokedWhileInFlight
  /\ Cardinality(AtSession) <= 1

\* C2 as stated: after the first automatic reconnect attempt no second one is
\* ever made.
C2_AtMostOneReconnectEver == reconnects <= 1

\* C2 as amended: every error-reason disconnect of a session with a recorded
\* id makes exactly one startConversation call, with that id; no automatic
\* attempt is made without an error disconnect of its own; and the failure of
\* an attempt (microphone, startSession, setVolume) makes no further attempt.
C2_OneReconnectPerErrorDisconnect ==
  /\ reconnects <= errDisc
  /\ (last = "disconnect_error" /\ sessionId # NoId) =>
        /\ Count("getUserMedia", out) = 1
        /\ starts[nStarts] = [IdleProc EXCEPT !.pc = "mic", !.sid = sessionId,
                                              !.auto = TRUE]
  /\ AutoFailed => Count("getUserMedia", out) = 0 /\ reconnects = errDisc

\* a session was re-established by a reconnect and then lost again to a
\* second error disconnect
C2_Witness == last = "disconnect_error" /\ reconnects = 2

\* C3: once the reconnect attempt of an error disconnect has failed, or there
\* was no id to reconnect with, no start is pending on the button, every
\* microphone stream is stopped and the player is enabled.
C3_UnrecoveredEndsIdle ==
  (ReconnectFailed \/ (last = "disconnect_error" /\ out = <<>>)) =>
     /\ isStarting = FALSE
     /\ mediaStreamRef = NoStream
     /\ LiveStreams = {}
     /\ disabled = FALSE

\* C4: handling a disconnect of reason 'agent' or 'user' makes no getUserMedia
\* and no startSession call and starts no startConversation.
C4_NoReconnectOnUserOrAgent ==
  last \in {"disconnect_agent", "stop_ok"} =>
     /\ Count("getUserMedia", out) = 0
     /\ Count("startSession", out) = 0
     /\ Count("onStartConversation", out) = 0

C4_Witness == last = "disconnect_agent" /\ sessionId # NoId /\ nStarts < MaxStarts

\* C5: after a disconnect of reason 'agent' or 'user' has been handled the
\* microphone stream is stopped, its reference cleared and the player enabled.
C5_TerminalDisconnectReleases ==
  last \in {"disconnect_agent", "stop_ok"} =>
     /\ mediaStreamRef = NoStream
     /\ LiveStreams = {}
     /\ disabled = FALSE

\* C6: at most one acquired stream has unstopped tracks, it is the one
\* mediaStreamRef holds, and none is left once no session is open or being
\* opened.
C6_NoMicrophoneLeak ==
  /\ LiveStreams \subseteq {mediaStreamRef}
  /\ (sdkStatus = "disconnected" /\ \A i \in Procs : starts[i].pc \in {"idle", "done"})
        => LiveStreams = {}

\* C7: when stopConversation has completed, on either outcome of endSession,
\* the microphone is released, the player enabled and the host notified.
C7_StopAlwaysReleases ==
  last \in {"stop_ok", "stop_fail"} =>
     /\ mediaStreamRef = NoStream
     /\ disabled = FALSE
     /\ Count("onStopConversation", out) >= 1

PlayerEvents == {"timeupdate", "timeupdate_seek", "slider", "skip", "play_pause", "ended"}

\* C9: whenever the player is disabled its audio element is paused and
\* isPlaying is false, whatever the play state was when it was disabled.
C9_DisabledImpliesNotPlaying == disabled => (audioPaused /\ ~isPlaying)

\* the player was disabled while it was playing
C9_Witness == last = "disable_playing" /\ disabled /\ audioPaused /\ ~isPlaying

\* C10: a media timeupdate or ended event, a slider change, a skip or a
\* play/pause click handled while the player is disabled makes no outward
\* call (no onTimeUpdate, onContextUpdate, onSetTime, onPlayStateChange).
C10_SilentWhileDisabled == (disabled /\ last \in PlayerEvents) => out = <<>>

\* a timeupdate event was handled while the player was disabled
C10_Witness == disabled /\ last = "timeupdate" /\ duration > 0

\* C11: re-enabling the player leaves the audio element paused, whether or
\* not it was playing when it was disabled, and a paused element starts
\* playing only in a step that carries a play request (the play/pause button
\* or the host setting isPlaying).
C11_NoAutoResume ==
  [][/\ (disabled /\ ~disabled') => audioPaused'
     /\ (audioPaused /\ ~audioPaused') => last' \in {"play_pause", "set_playing"}]_vars

\* the player was playing when it was disabled and has been re-enabled
C11_Witness == last = "enable" /\ wasPlaying /\ ~disabled /\ audioPaused

\* C12: after a seek made through onSetTime (slider or skip) to a time inside
\* 0..duration, the audio element is at the requested time.
C12_SeekRoundTrip ==
  (last \in {"slider", "skip"} /\ Count("onSetTime", out) = 1 /\ currentTime <= duration)
     => audioTime = currentTime

\* C13: once the duration is known, the position the host holds and the
\* position of the audio element are inside 0..duration.
C13_PositionInRange ==
  duration > 0 =>
     /\ 0 <= currentTime /\ currentTime <= duration
     /\ 0 <= audioTime /\ audioTime <= duration

\* C14: the time a skip requests is inside 0..duration, also while the
\* duration is not loaded yet.
C14_SkipInRange ==
  (last = "skip" /\ Count("onSetTime", out) = 1)
     => (0 <= currentTime /\ currentTime <= duration)

\* C15: the media event that follows an assignment to the element's position
\* made for a change of the currentTime prop emits no onTimeUpdate.
C15_NoEchoOfPositionUpdate ==
  last = "timeupdate_seek" => Count("onTimeUpdate", out) = 0

\* C16: no object URL is revoked twice; every URL but the one the mounted
\* player holds has been revoked, and after teardown all have; while the
\* player is mounted its element's src is the URL the ref holds and that URL
\* is not revoked.
C16_UrlsReleasedOnce ==
  /\ \A u \in 1..Len(urls) : urls[u] <= 1
  /\ \A u \in 1..Len(urls) : (~mounted \/ u # audioUrlRef) => urls[u] = 1
  /\ mounted => (audioSrc = audioUrlRef /\ audioSrc # NoUrl /\ urls[audioSrc] = 0)

\* the source was changed, the player torn down, and every URL is revoked
C16_Witness ==
  /\ last = "unmount"
  /\ Len(urls) >= 2
  /\ \A u \in 1..Len(urls) : urls[u] = 1

\* the calls a play_chunk invocation that resolves has made, in order
ResolvedChunkCalls ==
  <<"setTimeout", "fetchTimestamps", "new Audio", "currentTime=", "play",
    "onerror=", "requestAnimationFrame", "pause">>
\* the steps in which a play_chunk promise settles
ChunkSettled == {"chunk_nostream", "chunk_lookup_fail", "chunk_play_reject",
                 "chunk_error", "chunk_frame_end"}
primaryVars == <<disabled, isPlaying, currentTime, audioPaused, audioTime, duration>>

\* C17: play_chunk invoked without an audioUrl is rejected at once: it has
\* started no delay, made no timestamp lookup and created no Audio instance.
C17_NoSourceFailsAtOnce ==
  (audioUrl = "null" /\ chunk.pc # "idle") =>
     /\ chunk.pc = "done"
     /\ chunk.promise = "rejected"
     /\ chunk.calls = <<>>
     /\ ~chunk.audio

C17_Witness == last = "chunk_nostream" /\ chunk.promise = "rejected"

\* C18: a resolved play_chunk promise means the instance was given start_time
\* as its position and started before the first frame was requested, has
\* reached end_time, is paused, and the value reports the text and the
\* start_time and end_time of the lookup.
C18_ResolvesAfterEnd ==
  chunk.promise = "resolved" =>
     /\ chunk.time >= chunk.end_time
     /\ chunk.paused
     /\ chunk.seeked = chunk.start_time
     /\ chunk.calls = ResolvedChunkCalls
     /\ chunk.result = [status |-> "success", text |-> chunk.text,
                        start |-> chunk.start_time, end |-> chunk.end_time]

\* a chunk that had to play before it resolved
C18_Witness ==
  /\ chunk.promise = "resolved"
  /\ chunk.start_time < chunk.end_time
  /\ chunk.time = chunk.end_time

\* C19: a rejection of play() or an error event of the instance rejects the
\* pending promise, and no step of play_chunk changes the primary player's
\* position, play state or disabled flag.
C19_ChunkErrorRejects ==
  [][/\ (last' \in {"chunk_play_reject", "chunk_error"} /\ chunk.promise = "pending")
          => chunk'.promise = "rejected"
     /\ (chunk' # chunk) => UNCHANGED primaryVars]_vars

\* the instance failed while the primary player was playing
C19_Witness ==
  /\ last \in {"chunk_play_reject", "chunk_error"}
  /\ chunk.promise = "rejected"
  /\ ~audioPaused /\ audioTime > 0

\* C20: when a play_chunk promise settles, onBeforeChunkPlay was called at
\* the invocation, onAfterChunkPlay at the settling, and the primary player
\* is at the position it had when the tool was invoked.
C20_SnapshotRestore ==
  (last \in ChunkSettled /\ chunk.promise \in {"resolved", "rejected"}) =>
     /\ Count("onBeforeChunkPlay", chunk.calls) = 1
     /\ Count("onAfterChunkPlay", chunk.calls) = 1
     /\ audioTime = chunk.p

PlaceholderContext == "No context available yet"
DefaultHistory == "No history available yet"
DefaultFirstMessage == "Hi, I'm Book Buddy"

\* C21: at a position below one second no context request is made, no start
\* waits for one, and the startSession call is made with the placeholder
\* context.
C21_ContextSkippedNearStart ==
  currentTime < 1 =>
     /\ Count("fetchContext", out) = 0
     /\ \A i \in Procs : starts[i].pc # "ctx"
     /\ \A i \in AtSession : SessionArgs(starts[i]).context = PlaceholderContext

\* a start at position 0 has gone from the microphone to startSession
C21_Witness ==
  /\ currentTime = 0
  /\ last = "mic_ok"
  /\ out = <<"startSession">>
  /\ AtSession # {}

\* C22: a start with a prior session id whose history request failed calls
\* startSession all the same, with the default history and the default first
\* message.
C22_HistoryFailureSkipsGreeting ==
  \A i \in AtSession :
     (starts[i].sid # NoId /\ starts[i].hist = "") =>
        /\ SessionArgs(starts[i]).history = DefaultHistory
        /\ SessionArgs(starts[i]).first_message = DefaultFirstMessage

MicDenied == last \in {"mic_denied", "auto_mic_denied"}

\* C23: when getUserMedia is rejected the error message is set, the handler
\* makes no context, history or startSession call, and afterwards isStarting
\* is false, mediaStreamRef is null, the context is null and the player is
\* enabled.
C23_MicDeniedEndsIdle ==
  MicDenied =>
     /\ error = "startFailed"
     /\ Count("fetchContext", out) = 0
     /\ Count("fetchHistory", out) = 0
     /\ Count("startSession", out) = 0
     /\ ~isStarting
     /\ mediaStreamRef = NoStream
     /\ currentContext = "null"
     /\ ~disabled

\* the microphone was denied to a start made while the reference still held
\* the stream of an earlier session
C23_Witness == MicDenied /\ Count("track.stop", out) = 1 /\ ~disabled

\* C24: a click that starts a conversation finds no session connecting or
\* connected and no earlier start in flight, and no two startSession calls
\* are pending together.
C24_OneSessionAtATime ==
  /\ last = "click_start" =>
        /\ sdkStatus \notin {"connecting", "connected"}
        /\ \A j \in 1..(nStarts - 1) : ~InFlight(starts[j])
  /\ Cardinality(AtSession) <= 1

\* C25: a start that was waiting for its context or history response when a
\* session ended through stop, onError or a disconnect does not go on from
\* that response: the response sets no context and leads to no startSession
\* call.
C25_StaleResponseIgnored ==
  \A i \in Procs : starts[i].stale # "no" => starts[i].pc = starts[i].stale

\* C27: the recorded session id changes only in the step in which a
\* startSession call resolves, never in stop, a disconnect, onError or the
\* failure of a start, and a start made from the button carries the recorded
\* id as its existing session id.
C27_SessionIdRetained ==
  [][/\ sessionId' # sessionId =>
          last' \in {"session_ok", "auto_session_ok", "volume_fail", "auto_volume_fail"}
     /\ last' = "click_start" => starts'[nStarts'].sid = sessionId]_vars

\* the button started a conversation after a session with a recorded id had
\* been stopped
C27_Witness ==
  /\ last = "click_start"
  /\ sessionId # NoId
  /\ starts[nStarts].sid = sessionId
  /\ sdkStatus = "disconnected"

\* C28: whenever no session is connecting or connected and no start is in
\* flight, currentContext is null.
C28_ContextNullWithoutSession ==
  (sdkStatus = "disconnected" /\ \A i \in Procs : ~InFlight(starts[i]))
     => currentContext = "null"

\* C30: while the session is connected mediaStreamRef holds a stream whose
\* tracks are not stopped and the player is disabled.
C30_ConnectedHoldsMicrophone ==
  sdkStatus = "connected" =>
     /\ mediaStreamRef # NoStream
     /\ mediaStreamRef \in LiveStreams
     /\ disabled

\* the step of invocation i, when it moves on, is the next one of
\* startConversation and makes that step's calls
StepInOrder(i) ==
  LET a == starts[i].pc
      b == starts'[i].pc
  IN a # b =>
       \/ /\ a = "idle" /\ b = "mic"
          /\ out' = <<"onStartConversation", "onPlayerStateChange(true)", "getUserMedia">>
          /\ disabled'
       \/ /\ a = "mic" /\ b = "ctx"
          /\ out' = <<"fetchContext">>
       \/ /\ a \in {"mic", "ctx"} /\ b = "hist"
          /\ starts[i].sid # NoId
          /\ out' = <<"fetchHistory">>
       \/ /\ a \in {"mic", "ctx"} /\ b = "session"
          /\ starts[i].sid = NoId
          /\ out' = <<"startSession">>
       \/ /\ a = "hist" /\ b = "session"
          /\ out' = <<"startSession">>
       \/ /\ a = "session" /\ b = "done"
          /\ \/ out' = <<"setVolume">> /\ sessionId' # NoId
             \/ Head(out') = "catch"
       \/ /\ a = "mic" /\ b = "done"
          /\ Head(out') = "catch"

UploadFailed ==
  last \in {"upload_error", "status_error", "status_failed",
            "missing_filename", "fetch_error"}
C26_UploadFailureRecoverable ==
  UploadFailed =>
    /\ ~index.isProcessing
    /\ ~DropzoneDisabled(fileUpload)
    /\ (fileUpload.prior # NoFile =>
          index.audioFile = fileUpload.prior /\ PlayerShown(index))

\* C31: every play_chunk invocation eventually settles: once the timestamp
\* lookup has returned, the promise is resolved or rejected after finitely
\* many polling frames, whatever the lookup returned.
LookupReturned == chunk.pc \in {"starting", "polling"}
C31_ChunkEventuallySettles == LookupReturned ~> (chunk.promise # "pending")

\* C31, second part: once the promise has settled no further frame is
\* requested
C31_NoFrameAfterSettle == (last = "chunk_poll") => (chunk.promise = "pending")

\* C32: a user-initiated stop of a connected session notifies the host exactly
\* once: across stopConversation and the 'user' disconnect callback that
\* ending the session produces, onStopConversation is invoked one time and
\* onPlayerStateChange(false) one time.
C32_StopNotifiesOnce ==
  (last = "stop_ok") =>
    /\ Count("onStopConversation", out) = 1
    /\ Count("onPlayerStateChange(false)", out) = 1

\* C33: upload status polling: after a successful upload onFileAccepted is
\* called once and the status is polled while it is 'processing'; polling
\* stops at the first 'completed', 'failed' or failed status request;
\* setAudioFile is called exactly once and only on 'completed'; and at most
\* one upload / polling chain is in flight at a time.
ChainsInFlight == {f \in 1..MaxFiles : fileUpload.chains[f].pc \in {"upload", "status"}}
ChainInOrder(c) ==
  CASE c.pc = "idle" -> c = IdleChain
    [] c.pc = "upload" -> c.accepted = 0 /\ c.setAudio = 0 /\ c.polls = 0
    [] c.pc = "status" ->
         /\ c.accepted = 1 /\ c.setAudio = 0
         /\ c.result = (IF c.polls = 0 THEN "none" ELSE "processing")
    [] OTHER ->
         /\ c.result \in {"completed", "failed", "error", "rejected"}
         /\ c.accepted = (IF c.result = "rejected" THEN 0 ELSE 1)
         /\ c.setAudio = (IF c.result = "completed" THEN 1 ELSE 0)
ChainStopped(f) ==
  fileUpload.chains[f].pc = "done" => fileUpload'.chains[f] = fileUpload.chains[f]
C33_UploadPolling ==
  /\ [](Cardinality(ChainsInFlight) <= 1)
  /\ [](\A f \in 1..MaxFiles : ChainInOrder(fileUpload.chains[f]))
  /\ [][\A f \in 1..MaxFiles : ChainStopped(f)]_vars
C33_Witness ==
  /\ last \in {"status_completed", "missing_filename"}
  /\ \E f \in 1..MaxFiles :
       /\ fileUpload.chains[f] = [pc |-> "done", named |-> (last = "status_completed"),
                                  accepted |-> 1, setAudio |-> 1,
                                  polls |-> MaxPolls, result |-> "completed"]
       /\ \E g \in 1..MaxFiles : g # f /\ fileUpload.chains[g].pc = "done"

\* C34: the start control is never left disabled: in every state with no
\* start in flight isStarting is false.
NoStartInFlight == \A i \in Procs : ~InFlight(starts[i])
C34_IdleNotStarting == NoStartInFlight => ~isStarting

====
